---- MODULE Spec2Model ----
(***************************************************************************)
(* A model of src/xor.rs: fixed XOR, the single-byte XOR breaker with its  *)
(* letter-frequency scorer, the multi-ciphertext detector and the          *)
(* repeating-key XOR encoder.                                              *)
(*                                                                         *)
(* Bytes are 0..255.  Strings are sequences of ASCII character codes.      *)
(* A call returns Ok(value) or Panic(message).  f32 values are modelled as *)
(* <<"num", n>> (n in units of 1/FX, fixed point), <<"inf", 0>> and        *)
(* <<"nan", 0>>; comparisons follow IEEE 754 (NaN compares false).         *)
(***************************************************************************)
EXTENDS Integers, Sequences, FiniteSets

VARIABLES
    overflow_checks, \* build profile: TRUE = debug (overflow panics), FALSE = release (wraps)
    pc,              \* "idle" | "returned"
    call,            \* the call in progress: <<function name, arguments...>>
    ret,             \* <<function name, its result>>
    cnt_pc,          \* score_candidate's counting loop: "off" | "loop" | "done" | "panic"
    map,             \* the HashMap<char, u8> of score_candidate
    seen             \* the characters the chars() iterator has yielded so far (multiset)

vars == <<overflow_checks, pc, call, ret, cnt_pc, map, seen>>

----------------------------------------------------------------------------
(* Results and bytes *)

Ok(v) == <<"ok", v>>

Panic(msg) == <<"panic", msg>>

IsOk(r) == r[1] = "ok"

IsPanic(r) == r[1] = "panic"

RECURSIVE BitXor(_, _)
\* u8 ^ u8
BitXor(a, b) ==
    IF a = 0 THEN b
    ELSE IF b = 0 THEN a
    ELSE (((a % 2) + (b % 2)) % 2) + 2 * BitXor(a \div 2, b \div 2)

----------------------------------------------------------------------------
(* Byte codec (string_utils): hex <-> bytes, bytes -> ASCII string *)

\* value of a hex digit character, -1 if the character is no hex digit
HexDigitValue(c) ==
    IF c >= 48 /\ c <= 57 THEN c - 48
    ELSE IF c >= 97 /\ c <= 102 THEN c - 87
    ELSE IF c >= 65 /\ c <= 70 THEN c - 55
    ELSE -1

\* lowercase hex digit character of a value 0..15
HexDigitChar(d) == IF d < 10 THEN 48 + d ELSE 87 + d

hex_to_byte_array(s) ==
    IF (Len(s) % 2) # 0 THEN Panic("MalformedHex")
    ELSE IF \E i \in 1..Len(s) : HexDigitValue(s[i]) < 0 THEN Panic("MalformedHex")
    ELSE Ok([i \in 1..(Len(s) \div 2) |->
                16 * HexDigitValue(s[2 * i - 1]) + HexDigitValue(s[2 * i])])

byte_array_to_hex(v) ==
    [i \in 1..(2 * Len(v)) |->
        IF (i % 2) = 1 THEN HexDigitChar(v[(i + 1) \div 2] \div 16)
        ELSE HexDigitChar(v[i \div 2] % 16)]

None == <<"none">>

Some(x) == <<"some", x>>

bytes_to_ascii_string(v) ==
    IF \A i \in 1..Len(v) : v[i] < 128 THEN Some(v) ELSE None

----------------------------------------------------------------------------
(* Fixed XOR *)

\* a plausible slip: zip semantics, the shorter length wins and nothing fails
fixed_xor_zip(v1, v2) ==
    LET n == IF Len(v1) < Len(v2) THEN Len(v1) ELSE Len(v2)
    IN  Ok([i \in 1..n |-> BitXor(v1[i], v2[i])])

\* a plausible slip: the loop stops one element early
fixed_xor_short(v1, v2) ==
    IF Len(v1) # Len(v2) THEN Panic("Input vectors must be the same length")
    ELSE Ok([i \in 1..(IF Len(v1) > 1 THEN Len(v1) - 1 ELSE Len(v1)) |->
                BitXor(v1[i], v2[i])])

fixed_xor(v1, v2) ==
    IF Len(v1) # Len(v2) THEN Panic("Input vectors must be the same length")
    ELSE Ok([i \in 1..Len(v1) |-> BitXor(v1[i], v2[i])])

hex_fixed_xor(s1, s2) ==
    IF Len(s1) # Len(s2) THEN Panic("Input strings must be the same length")
    ELSE LET b1 == hex_to_byte_array(s1)
             b2 == hex_to_byte_array(s2)
         IN  IF IsPanic(b1) THEN b1
             ELSE IF IsPanic(b2) THEN b2
             ELSE LET x == fixed_xor(b1[2], b2[2])
                  IN  IF IsPanic(x) THEN x ELSE Ok(byte_array_to_hex(x[2]))

----------------------------------------------------------------------------
(* Repeating-key XOR encoder *)

\* a plausible slip: the key is not restarted, its last byte is reused
repeating_key_xor_clamp(s, key) ==
    IF Len(s) > 0 /\ Len(key) = 0
    THEN Panic("attempt to calculate the remainder with a divisor of zero")
    ELSE LET cypher == [i \in 1..Len(s) |->
                            key[IF i > Len(key) THEN Len(key) ELSE i]]
             x == fixed_xor(s, cypher)
         IN  IF IsPanic(x) THEN x ELSE Ok(byte_array_to_hex(x[2]))

repeating_key_xor(s, key) ==
    \* key_bytes[i % key_bytes.len()] is evaluated once per plaintext byte:
    \* with an empty key the first iteration panics, with an empty plaintext
    \* the loop body never runs
    IF Len(s) > 0 /\ Len(key) = 0
    THEN Panic("attempt to calculate the remainder with a divisor of zero")
    ELSE LET cypher == [i \in 1..Len(s) |-> key[((i - 1) % Len(key)) + 1]]
             x == fixed_xor(s, cypher)
         IN  IF IsPanic(x) THEN x ELSE Ok(byte_array_to_hex(x[2]))

----------------------------------------------------------------------------
(* f32 *)

FX == 2 ^ 10

Num(n) == <<"num", n>>

INFINITY == <<"inf", 0>>

NAN == <<"nan", 0>>

IsNum(x) == x[1] = "num"

\* a < b on f32: false as soon as one side is NaN
FLt(a, b) ==
    /\ a[1] # "nan"
    /\ b[1] # "nan"
    /\ a[1] = "num"
    /\ (b[1] = "inf" \/ (b[1] = "num" /\ a[2] < b[2]))

\* a <= b on f32
FLe(a, b) ==
    /\ a[1] # "nan"
    /\ b[1] # "nan"
    /\ (b[1] = "inf" \/ (a[1] = "num" /\ b[1] = "num" /\ a[2] <= b[2]))

FAdd(a, b) ==
    IF a[1] = "nan" \/ b[1] = "nan" THEN NAN
    ELSE IF a[1] = "inf" \/ b[1] = "inf" THEN INFINITY
    ELSE Num(a[2] + b[2])

RECURSIVE IntLog2(_, _)
\* the largest e with 2^e <= num/den, for num >= den > 0
IntLog2(num, den) == IF num < 2 * den THEN 0 ELSE 1 + IntLog2(num, 2 * den)

\* one squaring step on a mantissa 2^14 <= m < 2^15: the next binary digit
\* of log2(m / 2^14) is 1 iff m^2 >= 2 * 2^28
SqBit(m) == IF m * m >= 2 ^ 29 THEN 1 ELSE 0

\* the mantissa after the squaring step
SqNext(m) == IF m * m >= 2 ^ 29 THEN (m * m) \div (2 ^ 15) ELSE (m * m) \div (2 ^ 14)

\* the first ten binary digits of log2(m / 2^14), 2^14 <= m < 2^15
FracLog2(m) ==
    LET m1 == SqNext(m)
        m2 == SqNext(m1)
        m3 == SqNext(m2)
        m4 == SqNext(m3)
        m5 == SqNext(m4)
        m6 == SqNext(m5)
        m7 == SqNext(m6)
        m8 == SqNext(m7)
        m9 == SqNext(m8)
    IN  512 * SqBit(m) + 256 * SqBit(m1) + 128 * SqBit(m2) + 64 * SqBit(m3)
            + 32 * SqBit(m4) + 16 * SqBit(m5) + 8 * SqBit(m6) + 4 * SqBit(m7)
            + 2 * SqBit(m8) + SqBit(m9)

\* (num/den).log(2.0) in units of 1/FX, for num >= den > 0
Log2Fx(num, den) ==
    IF num = den THEN 0
    ELSE LET e == IntLog2(num, den)
         IN  e * FX + FracLog2((num * (2 ^ 14)) \div (den * (2 ^ e)))

Abs(n) == IF n < 0 THEN 0 - n ELSE n

----------------------------------------------------------------------------
(* Candidate scorer *)

\* (letter, corpus frequency in 1/10000)
corpus_frequency_data ==
    << <<97, 812>>,  <<98, 149>>,  <<99, 271>>,  <<100, 432>>, <<101, 1202>>,
       <<102, 230>>, <<103, 203>>, <<104, 592>>, <<105, 731>>, <<106, 10>>,
       <<107, 69>>,  <<108, 398>>, <<109, 261>>, <<110, 695>>, <<111, 768>>,
       <<112, 182>>, <<113, 11>>,  <<114, 602>>, <<115, 628>>, <<116, 910>>,
       <<117, 288>>, <<118, 111>>, <<119, 209>>, <<120, 17>>,  <<121, 211>>,
       <<122, 7>> >>

\* (corpus_frequency * 100.0 + 1.0).log(2.0), per letter
CorpusLog ==
    [i \in 1..Len(corpus_frequency_data) |->
        Log2Fx(corpus_frequency_data[i][2] + 100, 100)]

IsSpace(c) == c = 32

\* s.replace(" ", "")
StripSpaces(s) == SelectSeq(s, LAMBDA c : ~IsSpace(c))

\* to_lowercase on ASCII
ToLowercase(s) ==
    [i \in 1..Len(s) |-> IF s[i] >= 65 /\ s[i] <= 90 THEN s[i] + 32 ELSE s[i]]

EmptyMap == [c \in {} |-> 0]

\* *map.get(&c).unwrap_or(&0)
MapGet(m, c) == IF c \in DOMAIN m THEN m[c] ELSE 0

\* let count = map.entry(c).or_insert(0); *count += 1;   on a u8:
\* at 255 the addition panics with overflow checks on and wraps to 0 without
CountInc(m, c) ==
    IF MapGet(m, c) = 255 /\ overflow_checks
    THEN Panic("attempt to add with overflow")
    ELSE Ok([x \in DOMAIN m \cup {c} |->
                IF x = c THEN (MapGet(m, c) + 1) % 256 ELSE m[x]])

RECURSIVE CountLoop(_, _)
\* the map after the first n characters, or the panic
CountLoop(chars, n) ==
    IF n = 0 THEN Ok(EmptyMap)
    ELSE LET prev == CountLoop(chars, n - 1)
         IN  IF IsPanic(prev) THEN prev ELSE CountInc(prev[2], chars[n])

\* count as f32 / stripped_string.len() as f32, kept as a fraction; 0/0 is NaN
LetterFrequency(count, len) == IF len = 0 THEN NAN ELSE <<"frac", count, len>>

\* ((letter_frequency * 100.0 + 1.0).log(2.0) - (corpus ...).log(2.0)).abs()
LetterScore(freq, i) ==
    IF freq = NAN THEN NAN
    ELSE Num(Abs(Log2Fx(100 * freq[2] + freq[3], freq[3]) - CorpusLog[i]))

\* score += letter_score, for the i-th letter of corpus_frequency_data
LetterStep(score, m, len, i) ==
    FAdd(score,
         LetterScore(LetterFrequency(MapGet(m, corpus_frequency_data[i][1]), len), i))

RECURSIVE LetterRange(_, _, _, _, _)
\* the letters lo..hi-1 in order, starting from score; the range is halved
\* only to keep the evaluation shallow (NaN absorbs every later addition)
LetterRange(score, m, len, lo, hi) ==
    IF hi <= lo THEN score
    ELSE IF hi = lo + 1 THEN LetterStep(score, m, len, lo)
    ELSE LET mid == (lo + hi) \div 2
             left == LetterRange(score, m, len, lo, mid)
         IN  IF left = NAN THEN NAN ELSE LetterRange(left, m, len, mid, hi)

\* score after the first i letters of corpus_frequency_data
LetterSum(m, len, i) == LetterRange(Num(0), m, len, 1, i + 1)

IsProse(c) ==
    \/ (c >= 65 /\ c <= 90)
    \/ (c >= 97 /\ c <= 122)
    \/ c = 32
    \/ c = 46
    \/ c = 39

RECURSIVE Modifier(_, _)
\* the modifier after the first n characters, in units of 1/FX
Modifier(s, n) ==
    IF n = 0 THEN 2 * FX
    ELSE IF IsProse(s[n]) THEN (Modifier(s, n - 1) * 115) \div 100
    ELSE (Modifier(s, n - 1) * 100) \div 120

\* score -= modifier; score += 1.0 / modifier
ModifierTerm(modifier) == Num((FX * FX) \div modifier - modifier)

\* the score once the counting loop has ended with `counted`
ScoreFrom(counted, len, s) ==
    IF IsPanic(counted) THEN counted
    ELSE Ok(FAdd(LetterSum(counted[2], len, Len(corpus_frequency_data)),
                 ModifierTerm(Modifier(s, Len(s)))))

score_candidate(s) ==
    LET stripped_string == StripSpaces(s)
    IN  ScoreFrom(CountLoop(ToLowercase(stripped_string), Len(stripped_string)),
                  Len(stripped_string), s)

----------------------------------------------------------------------------
(* Single-byte XOR breaker *)

\* for key in 0..255 as u8: the range's exclusive upper end
KeyRangeEnd == 255

BreakerStart == [min_score |-> INFINITY, best_candidate |-> <<>>]

\* the candidate of one key: None, or Some(ascii string)
Candidate(bytes, key) ==
    LET cypher == [i \in 1..Len(bytes) |-> key]
        cleartext_candidate == fixed_xor(bytes, cypher)
    IN  bytes_to_ascii_string(cleartext_candidate[2])

\* if score < min_score { min_score = score; best_candidate = ascii_string; }
BreakerUpdate(acc, ascii_string, score) ==
    IF IsPanic(score) THEN score
    ELSE IF FLt(score[2], acc.min_score)
    THEN Ok([min_score |-> score[2], best_candidate |-> ascii_string])
    ELSE Ok(acc)

\* the key loop's body from the match on
BreakerMatch(acc, ascii_string) ==
    IF ascii_string = None THEN Ok(acc)
    ELSE BreakerUpdate(acc, ascii_string[2], score_candidate(ascii_string[2]))

\* one iteration of the key loop
BreakerStep(acc, bytes, key) == BreakerMatch(acc, Candidate(bytes, key))

RECURSIVE BreakerRange(_, _, _, _)
\* the keys lo..hi-1 in ascending order, starting from acc; the range is
\* halved only to keep the evaluation shallow
BreakerRange(acc, bytes, lo, hi) ==
    IF hi <= lo THEN Ok(acc)
    ELSE IF hi = lo + 1 THEN BreakerStep(acc, bytes, lo)
    ELSE LET mid == (lo + hi) \div 2
             left == BreakerRange(acc, bytes, lo, mid)
         IN  IF IsPanic(left) THEN left
             ELSE BreakerRange(left[2], bytes, mid, hi)

\* (best_candidate, min_score) after the keys 0..n-1, or the panic
BreakerLoop(bytes, n) == BreakerRange(BreakerStart, bytes, 0, n)

\* (best_candidate, min_score)
BreakerResult(r) ==
    IF IsPanic(r) THEN r ELSE Ok(<<r[2].best_candidate, r[2].min_score>>)

\* the function once s is decoded
BreakerOn(bytes) ==
    IF IsPanic(bytes) THEN bytes
    ELSE BreakerResult(BreakerLoop(bytes[2], KeyRangeEnd))

xor_cypher_decrypt_char_frequency(s) == BreakerOn(hex_to_byte_array(s))

----------------------------------------------------------------------------
(* Multi-ciphertext detector *)

DetectStart == [min_score |-> INFINITY, best_cleartext |-> <<>>, best_index |-> 0]

\* the update with <= in place of <
DetectUpdateLe(acc, index, r) ==
    IF IsPanic(r) THEN r
    ELSE IF FLe(r[2][2], acc.min_score)
    THEN Ok([min_score |-> r[2][2], best_cleartext |-> r[2][1], best_index |-> index])
    ELSE Ok(acc)

\* a plausible slip: the best is replaced on <=, so the last minimum wins
DetectStepLe(acc, index, s) ==
    DetectUpdateLe(acc, index, xor_cypher_decrypt_char_frequency(s))

\* if score < min_score { min_score = score; best_cleartext = ...; best_index = index; }
DetectUpdate(acc, index, r) ==
    IF IsPanic(r) THEN r
    ELSE IF FLt(r[2][2], acc.min_score)
    THEN Ok([min_score |-> r[2][2], best_cleartext |-> r[2][1], best_index |-> index])
    ELSE Ok(acc)

\* one iteration over v.iter().enumerate(); index counts from 0
DetectStep(acc, index, s) ==
    DetectUpdate(acc, index, xor_cypher_decrypt_char_frequency(s))

RECURSIVE DetectLoop(_, _)
\* the accumulator after the first n ciphertexts, or the panic
DetectLoop(v, n) ==
    IF n = 0 THEN Ok(DetectStart)
    ELSE LET prev == DetectLoop(v, n - 1)
         IN  IF IsPanic(prev) THEN prev ELSE DetectStep(prev[2], n - 1, v[n])

\* (best_index, best_cleartext)
DetectResult(r) ==
    IF IsPanic(r) THEN r ELSE Ok(<<r[2].best_index, r[2].best_cleartext>>)

detect_single_char_xor(v) == DetectResult(DetectLoop(v, Len(v)))

----------------------------------------------------------------------------
(* Inputs *)

\* the longest byte sequence, text or key passed to a call
MaxLen == 3

\* the largest collection passed to the detector
MaxColl == 2

\* the longest text fed to the counting loop
MaxText == 257

SeqsUpTo(S, n) == UNION {[1..k -> S] : k \in 0..n}

\* ' ', 'e' ^ 0xff, '.' ^ 0xff
SampleBytes == {32, 154, 209}

ByteSeqs == SeqsUpTo(SampleBytes, MaxLen)

\* "4", "4g", "4ag9", "9A", "D1d19a"
OtherHex == {<<52>>, <<52, 103>>, <<52, 97, 103, 57>>, <<57, 65>>,
             <<68, 49, 100, 49, 57, 97>>}

HexInputs == {byte_array_to_hex(b) : b \in ByteSeqs} \cup OtherHex

\* control character, ' ', '.', 'E', 'e'
SampleChars == {1, 32, 46, 69, 101}

Texts == SeqsUpTo(SampleChars, MaxLen)

\* "209a" (no decodable key), "9a" (decodes to "E"), "9a9a" (a lower score)
DetectInputs == {<<50, 48, 57, 97>>, <<57, 97>>, <<57, 97, 57, 97>>}

Collections == SeqsUpTo(DetectInputs, MaxColl)

\* '.', 'E', 'e'
CountChars == {46, 69, 101}

\* ' ', 'I', 'e': the bytes of the plaintext and key strings
KeyChars == {32, 73, 101}

KeyTexts == SeqsUpTo(KeyChars, MaxLen)

----------------------------------------------------------------------------
(* Calls *)

Init ==
    /\ overflow_checks \in BOOLEAN
    /\ pc = "idle"
    /\ call = <<>>
    /\ ret = <<>>
    /\ cnt_pc = "off"
    /\ map = EmptyMap
    /\ seen = EmptyMap

Returned(c, r) ==
    /\ pc' = "returned"
    /\ call' = c
    /\ ret' = <<c[1], r>>
    /\ UNCHANGED <<overflow_checks, cnt_pc, map, seen>>

Call_fixed_xor ==
    /\ pc = "idle"
    /\ \E v1 \in ByteSeqs, v2 \in ByteSeqs :
          Returned(<<"fixed_xor", v1, v2>>, fixed_xor(v1, v2))

Call_hex_fixed_xor ==
    /\ pc = "idle"
    /\ \E s1 \in HexInputs, s2 \in HexInputs :
          Returned(<<"hex_fixed_xor", s1, s2>>, hex_fixed_xor(s1, s2))

Call_repeating_key_xor ==
    /\ pc = "idle"
    /\ \E s \in KeyTexts, key \in KeyTexts :
          Returned(<<"repeating_key_xor", s, key>>, repeating_key_xor(s, key))

Call_score_candidate ==
    /\ pc = "idle"
    /\ \E s \in Texts :
          Returned(<<"score_candidate", s>>, score_candidate(s))

Call_xor_cypher_decrypt_char_frequency ==
    /\ pc = "idle"
    /\ \E s \in HexInputs :
          Returned(<<"xor_cypher_decrypt_char_frequency", s>>,
                   xor_cypher_decrypt_char_frequency(s))

Call_detect_single_char_xor ==
    /\ pc = "idle"
    /\ \E v \in Collections :
          Returned(<<"detect_single_char_xor", v>>, detect_single_char_xor(v))

\* the caller takes the result; the next call is independent
Return ==
    /\ pc = "returned"
    /\ pc' = "idle"
    /\ call' = <<>>
    /\ ret' = <<>>
    /\ UNCHANGED <<overflow_checks, cnt_pc, map, seen>>

Next ==
    \/ Call_fixed_xor
    \/ Call_hex_fixed_xor
    \/ Call_repeating_key_xor
    \/ Call_score_candidate
    \/ Call_xor_cypher_decrypt_char_frequency
    \/ Call_detect_single_char_xor
    \/ Return

Spec == Init /\ [][Next]_vars

----------------------------------------------------------------------------
(* The counting loop of score_candidate, one character per step *)

SeenLen == LET S == DOMAIN seen IN
    (IF 46 \in S THEN seen[46] ELSE 0) + (IF 101 \in S THEN seen[101] ELSE 0)

InitCount ==
    /\ overflow_checks \in BOOLEAN
    /\ pc = "counting"
    /\ call = <<"score_candidate">>
    /\ ret = <<>>
    /\ cnt_pc = "loop"
    /\ map = EmptyMap
    /\ seen = EmptyMap

\* for c in s.replace(" ", "").to_lowercase().chars() { ... *count += 1; }
CountNext ==
    /\ cnt_pc = "loop"
    /\ SeenLen < MaxText
    /\ \E raw \in CountChars :
          LET c == ToLowercase(<<raw>>)[1]
              r == CountInc(map, c)
          IN  /\ seen' = [x \in DOMAIN seen \cup {c} |->
                              IF x = c THEN MapGet(seen, c) + 1 ELSE seen[x]]
              /\ IF IsPanic(r)
                 THEN cnt_pc' = "panic" /\ map' = map
                 ELSE cnt_pc' = "loop" /\ map' = r[2]
    /\ UNCHANGED <<overflow_checks, pc, call, ret>>

\* the iterator is exhausted; the frequencies are read from the map
CountEnd ==
    /\ cnt_pc = "loop"
    /\ cnt_pc' = "done"
    /\ UNCHANGED <<overflow_checks, pc, call, ret, map, seen>>

NextCount == CountNext \/ CountEnd

SpecCount == InitCount /\ [][NextCount]_vars

----------------------------------------------------------------------------
(* Properties *)

Called(f) == pc = "returned" /\ call[1] = f

\* the result of the call
Ret == ret[2]

Bit(x, j) == (x \div (2 ^ j)) % 2

\* out is the exclusive-or of a and b, bit by bit
IsXorOf(out, a, b) ==
    /\ out \in 0..255
    /\ \A j \in 0..7 : Bit(out, j) = (IF Bit(a, j) = Bit(b, j) THEN 0 ELSE 1)

\* h is a string of n lowercase hex digit pairs
IsLowerHex(h, n) ==
    /\ Len(h) = 2 * n
    /\ \A i \in 1..Len(h) : (h[i] >= 48 /\ h[i] <= 57) \/ (h[i] >= 97 /\ h[i] <= 102)

\* the byte the i-th digit pair of h stands for
HexByteAt(h, i) == 16 * HexDigitValue(h[2 * i - 1]) + HexDigitValue(h[2 * i])

ValidHex(s) == IsOk(hex_to_byte_array(s))

\* C2: for equal-length A and B, fixed_xor(A, B) has the same length and its
\* i-th byte is A[i] XOR B[i]; hex_fixed_xor does the same on hex encodings
C2_FixedXorPointwise ==
    /\ (Called("fixed_xor") /\ Len(call[2]) = Len(call[3])) =>
          /\ IsOk(Ret)
          /\ Len(Ret[2]) = Len(call[2])
          /\ \A i \in 1..Len(call[2]) : IsXorOf(Ret[2][i], call[2][i], call[3][i])
    /\ (Called("hex_fixed_xor") /\ Len(call[2]) = Len(call[3])
            /\ ValidHex(call[2]) /\ ValidHex(call[3])) =>
          LET A == hex_to_byte_array(call[2])[2]
              B == hex_to_byte_array(call[3])[2]
          IN  /\ IsOk(Ret)
              /\ IsLowerHex(Ret[2], Len(A))
              /\ \A i \in 1..Len(A) : IsXorOf(HexByteAt(Ret[2], i), A[i], B[i])

C2_Witness ==
    /\ Called("fixed_xor")
    /\ call[2] = <<32, 154, 209>>
    /\ call[3] = <<154, 154, 32>>
    /\ Ret = Ok(<<186, 0, 241>>)

\* C3: fixed_xor on sequences of different lengths, and hex_fixed_xor on hex
\* strings of different lengths, panic with the length message and return nothing
C3_LengthMismatchPanics ==
    /\ (Called("fixed_xor") /\ Len(call[2]) # Len(call[3])) =>
          Ret = Panic("Input vectors must be the same length")
    /\ (Called("hex_fixed_xor") /\ Len(call[2]) # Len(call[3])) =>
          Ret = Panic("Input strings must be the same length")

C3_Witness ==
    /\ Called("fixed_xor")
    /\ call[2] = <<32, 154>>
    /\ call[3] = <<209>>
    /\ IsPanic(Ret)

\* C4: repeating_key_xor with an empty key fails for every plaintext,
\* the empty plaintext included
C4_EmptyKeyFails ==
    (Called("repeating_key_xor") /\ Len(call[3]) = 0) => IsPanic(Ret)

\* C5: for a non-empty key of m bytes, repeating_key_xor returns the hex
\* encoding of n bytes, byte i being plaintext[i] XOR key[i mod m]
C5_RepeatingKeyCycles ==
    (Called("repeating_key_xor") /\ Len(call[3]) > 0) =>
        LET s == call[2]
            key == call[3]
        IN  /\ IsOk(Ret)
            /\ IsLowerHex(Ret[2], Len(s))
            /\ \A i \in 1..Len(s) :
                  IsXorOf(HexByteAt(Ret[2], i), s[i], key[((i - 1) % Len(key)) + 1])

\* " Ie" under the key "e " gives "456900": the third byte meets key[0] again
C5_Witness ==
    /\ Called("repeating_key_xor")
    /\ call[2] = <<32, 73, 101>>
    /\ call[3] = <<101, 32>>
    /\ Ret = Ok(<<52, 53, 54, 57, 48, 48>>)

----------------------------------------------------------------------------
(* Properties of the breaker, the scorer and the detector *)

AllKeys == 0..255

\* the score of key k's candidate, NAN standing in where there is none to compare
ScoreOrNan(sc) == IF IsOk(sc) THEN sc[2] ELSE NAN

CandidateScore(c) == IF c = None THEN NAN ELSE ScoreOrNan(score_candidate(c[2]))

KeyScore(bytes, k) == CandidateScore(Candidate(bytes, k))

Decodable(bytes, K) == {k \in K : Candidate(bytes, k) # None}

\* (cand, score) is the candidate of the smallest key of K whose score no key
\* of K beats; with no key of K scoring below infinity it is ("", infinity)
FirstStrictMinOf(T, D, bytes, cand, score) ==
    IF D = {} THEN cand = <<>> /\ score = INFINITY
    ELSE \E k \in D :
            /\ score = T[k]
            /\ cand = Candidate(bytes, k)[2]
            /\ \A j \in D : ~FLt(T[j], T[k])
            /\ \A j \in D : j < k => T[j] # T[k]

FiniteKeys(T) == {k \in DOMAIN T : FLt(T[k], INFINITY)}

FirstStrictMin(bytes, K, cand, score) ==
    FirstStrictMinOf([k \in K |-> KeyScore(bytes, k)],
                     FiniteKeys([k \in K |-> KeyScore(bytes, k)]), bytes, cand, score)

BreakerCalled == Called("xor_cypher_decrypt_char_frequency") /\ ValidHex(call[2])

BreakerBytes == hex_to_byte_array(call[2])[2]

\* C1: every key 0..255, 255 included, is tried: no ASCII-decodable candidate
\* of any of the 256 keys scores below the returned minimum
C1_AllKeysTried ==
    BreakerCalled =>
        /\ IsOk(Ret)
        /\ \A k \in AllKeys : ~FLt(KeyScore(BreakerBytes, k), Ret[2][2])

\* C6: the breaker returns the lowest-scoring candidate among the keys whose
\* result is ASCII-decodable, the smallest such key winning a tie
C6_FirstStrictMinimum ==
    BreakerCalled =>
        /\ IsOk(Ret)
        /\ FirstStrictMin(BreakerBytes, AllKeys, Ret[2][1], Ret[2][2])

\* the loop invariant of C6: after the keys 0..n-1 the tracked pair is the
\* first strict minimum over those keys
BreakerLoopInvariant ==
    BreakerCalled =>
        \A n \in 0..KeyRangeEnd :
            LET acc == BreakerLoop(BreakerBytes, n)
            IN  /\ IsOk(acc)
                /\ FirstStrictMin(BreakerBytes, 0..(n - 1),
                                  acc[2].best_candidate, acc[2].min_score)

\* C7: with no ASCII-decodable key the breaker returns ("", infinity);
\* otherwise it returns one of the decoded candidates with its finite score
C7_DegenerateOrCandidate ==
    BreakerCalled =>
        LET D == Decodable(BreakerBytes, AllKeys)
        IN  /\ IsOk(Ret)
            /\ IF D = {} THEN Ret[2] = <<<<>>, INFINITY>>
               ELSE /\ IsNum(Ret[2][2])
                    /\ \E k \in D :
                          /\ Ret[2][1] = Candidate(BreakerBytes, k)[2]
                          /\ Ret[2][2] = KeyScore(BreakerBytes, k)

\* C8: the detector returns the lowest index whose breaker score is the
\* minimum over the collection, with the breaker's text for that ciphertext;
\* (0, "") for the empty collection
C8_DetectorFirstMinimum ==
    (Called("detect_single_char_xor") /\ \A i \in 1..Len(call[2]) : ValidHex(call[2][i])) =>
        LET v == call[2]
            res == [i \in 1..Len(v) |-> xor_cypher_decrypt_char_frequency(v[i])[2]]
        IN  /\ IsOk(Ret)
            /\ IF Len(v) = 0 THEN Ret[2] = <<0, <<>>>>
               ELSE \E i \in 1..Len(v) :
                       /\ \A j \in 1..Len(v) : FLe(res[i][2], res[j][2])
                       /\ \A j \in 1..(i - 1) : res[j][2] # res[i][2]
                       /\ Ret[2] = <<i - 1, res[i][1]>>

\* ("209a", "9a"): the first has no decodable key, the second decodes to "E"
C8_Witness ==
    /\ Called("detect_single_char_xor")
    /\ call[2] = << <<50, 48, 57, 97>>, <<57, 97>> >>
    /\ Ret = Ok(<<1, <<69>>>>)

\* C9: score_candidate returns a defined real score for every ASCII string,
\* the empty string and all-space strings included
C9_ScoreTotal ==
    Called("score_candidate") => (IsOk(Ret) /\ IsNum(Ret[2]))

\* C10: the count kept for each letter is the number of characters of the
\* stripped text that are that letter, however often it occurs, and the
\* loop does not fault
C10_CountsAreExact ==
    /\ cnt_pc # "panic"
    /\ \A c \in DOMAIN seen : MapGet(map, c) = seen[c]

====
